---- MODULE Spec2Model ----
(***************************************************************************)
(* Dashboard content resolution layer of the LumiCue frontend:             *)
(* apiService (fetch, day cache, local profile), dashboardDataStore and    *)
(* feedbackManager, over a model of the browser's localStorage.            *)
(*                                                                         *)
(* JavaScript values are modelled as tagged records, so that truthiness,   *)
(* property access on null and JSON serialisation behave as in the         *)
(* language.  Long literal strings of the reference dataset are shortened. *)
(* localStorage writes are taken to succeed (no quota failure).            *)
(* Nothing in the application subscribes to the store, so the loads of     *)
(* Spec and SpecCache run with no listener; subscriptions and broadcasts   *)
(* are exercised by SpecStore, the read accessors by SpecRead.             *)
(***************************************************************************)
EXTENDS Integers, Naturals, Sequences, FiniteSets, TLC

(* ------------------------------ bounds --------------------------------- *)
\* calendar days the device clock can show
MaxDay == 2
\* concurrent getDashboardData invocations
MaxCalls == 1
\* entries kept in each feedback list
MaxFeedback == 1
\* calendar year shown by the device clock
BaseYear == 2025
\* calls of subscribe
MaxSubscribes == 3
\* the oldest age among the birth years tried
MaxAge == 100
\* getDashboardData invocations the interface can have started at once
MaxLoads == 2
\* entries the feedback log is grown to
MaxEntries == 3

Days == 1..MaxDay
Calls == 1..MaxCalls

(* --------------------------- JavaScript values ------------------------- *)
Undefined == [t |-> "undef"]
Null == [t |-> "null"]
Str(s) == [t |-> "str", s |-> s]
Num(n) == [t |-> "num", n |-> n]
Bool(b) == [t |-> "bool", b |-> b]
Arr(a) == [t |-> "arr", a |-> a]
Obj(f) == [t |-> "obj", f |-> f]
EmptyObj == Obj([k \in {} |-> Null])

\* ToBoolean: undefined, null, "", 0 and false are falsy; [] and {} are truthy
Truthy(v) ==
  CASE v.t = "undef" -> FALSE
    [] v.t = "null" -> FALSE
    [] v.t = "str" -> v.s # ""
    [] v.t = "num" -> v.n # 0
    [] v.t = "bool" -> v.b
    [] OTHER -> TRUE

\* v.k raises a TypeError when v is null or undefined
Throws(v) == v.t \in {"undef", "null"}

\* v.k for a v that is not null or undefined
Get(v, k) == IF v.t = "obj" /\ k \in DOMAIN v.f THEN v.f[k] ELSE Undefined

\* v?.k
OptGet(v, k) == IF Throws(v) THEN Undefined ELSE Get(v, k)

\* a || b
OrElse(a, b) == IF Truthy(a) THEN a ELSE b

\* the value JSON.parse(JSON.stringify(v)) yields: properties holding
\* undefined are dropped, undefined array elements become null
RECURSIVE Normalize(_)
Normalize(v) ==
  CASE v.t = "obj" ->
         Obj([k \in {j \in DOMAIN v.f : v.f[j].t # "undef"} |-> Normalize(v.f[k])])
    [] v.t = "arr" ->
         Arr([i \in DOMAIN v.a |->
                IF v.a[i].t = "undef" THEN Null ELSE Normalize(v.a[i])])
    [] OTHER -> v

(* ------------------------------ localStorage --------------------------- *)
CACHE_KEY == "lumicue_dashboard_data"
PROFILE_KEY == "patient_profile"
FEEDBACK_KEY == "user_feedback"
Keys == {CACHE_KEY, PROFILE_KEY, FEEDBACK_KEY}

\* what getItem returns: null for no item, else the stored string, which is
\* the empty string, a JSON text or a text JSON.parse rejects
NoItem == [kind |-> "none"]
EmptyText == [kind |-> "empty"]
CorruptText == [kind |-> "corrupt"]
JsonText(v) == [kind |-> "json", v |-> v]

\* JSON.stringify of a value that is not undefined
Stringify(v) == JsonText(Normalize(v))

\* !item
ItemFalsy(item) == item.kind \in {"none", "empty"}

\* JSON.parse raises a SyntaxError
ParseThrows(text) == text.kind # "json"

\* JSON.parse
Parse(text) == text.v

(* --------------------------- reference dataset ------------------------- *)
FALLBACK_API_RESPONSE ==
  Obj([
    patient_info |-> Obj([
      name |-> Str("Maria"),
      cultural_heritage |-> Str("Italian-American"),
      age |-> Num(80),
      daily_theme |-> Str("Happy Days")]),
    content |-> Obj([
      music |-> Obj([
        artist |-> Str("Giacomo Puccini"),
        piece_title |-> Str("La Boheme"),
        youtube_url |-> Str("https://www.youtube.com/watch?v=eKh7SnSi8S8"),
        youtube_embed |-> Str("https://www.youtube.com/embed/eKh7SnSi8S8"),
        conversation_starters |-> Arr(<<
          Str("This beautiful opera reminds me of ..."),
          Str("Puccini's music makes me think of ...")>>),
        fun_fact |-> Str("In the 1950s, families would gather around the radio ...")]),
      recipe |-> Obj([
        name |-> Str("Happy Days Italian Afternoon Snack"),
        ingredients |-> Arr(<<
          Str("1 slice good bread"),
          Str("1 tablespoon olive oil"),
          Str("1 teaspoon balsamic vinegar"),
          Str("Pinch of salt"),
          Str("1 teaspoon Parmesan cheese")>>),
        instructions |-> Arr(<<
          Str("Toast bread lightly in microwave for 30 seconds"),
          Str("Drizzle with olive oil and balsamic vinegar"),
          Str("Sprinkle with salt and Parmesan"),
          Str("Heat for additional 30 seconds to warm")>>),
        conversation_starters |-> Arr(<<
          Str("Remember those carefree afternoons ...?"),
          Str("Did your family enjoy these kinds of treats ...?"),
          Str("What were your favorite simple pleasures ...?")>>)]),
      photo |-> Obj([
        filename |-> Str("school.png"),
        description |-> Str("Here's a delightful photo ..."),
        cultural_context |->
          Str("Enhanced for italian-american heritage with Happy Days nostalgia"),
        conversation_starters |-> Arr(<<
          Str("Look at those happy faces! ..."),
          Str("This photo brings back memories of sock hops ..."),
          Str("See how everyone's dressed up so nicely? ...")>>)]),
      nostalgia_news |-> Obj([
        title |-> Str("Nostalgia News - July 28"),
        subtitle |-> Str("Happy Days Edition"),
        date |-> Str("July 28, 2025"),
        personalized_for |-> Str("Maria"),
        sections |-> Obj([
          memory_spotlight |-> Obj([
            headline |-> Str("Memory Spotlight"),
            content |-> Str("On this day in 1948, ..."),
            fun_fact |-> Str("The happiest memories are made ...")]),
          era_highlights |-> Obj([
            headline |-> Str("Era Highlights"),
            content |-> Str("The 1950s were truly the Happy Days ..."),
            fun_fact |-> Str("Rock 'n' roll and family values ...")]),
          heritage_traditions |-> Obj([
            headline |-> Str("Heritage Traditions"),
            content |-> Str("Italian-American families in the Happy Days era ..."),
            fun_fact |-> Str("Family traditions create ...")]),
          conversation_starters |-> Obj([
            headline |-> Str("Conversation Starters"),
            questions |-> Arr(<<
              Str("What made you happiest during those wonderful 1950s days?"),
              Str("Do you remember dancing to your favorite songs at the local hop?"),
              Str("What was your favorite family tradition ...?")>>)])]),
        themes |-> Arr(<<Str("Happy Days"), Str("Heritage"), Str("Memories")>>),
        metadata |-> Obj([
          generated_by |-> Str("gemini_newsletter"),
          generation_timestamp |-> Str("2025-07-28T15:51:22.347808"),
          theme_integrated |-> Str("Happy Days"),
          heritage_featured |-> Str("italian-american"),
          safety_level |-> Str("dementia_friendly"),
          structure_verified |-> Bool(TRUE),
          sections_count |-> Num(4),
          newsletter_tone |-> Bool(TRUE)])])]),
    metadata |-> Obj([
      quality_score |-> Str("high"),
      personalization_level |-> Str("highly_personalized"),
      generation_timestamp |-> Str("2025-07-28T15:51:22.349328"),
      theme |-> Str("Happy Days"),
      agent_pipeline |-> Str("6_agent_enhanced")]),
    pipeline_metadata |-> Obj([
      agents_executed |-> Num(8),
      execution_timestamp |-> Str("2025-07-28T15:51:22.349785"),
      pipeline_version |-> Str("6_agent_nostalgia_news"),
      star_feature |-> Str("nostalgia_news_generator"),
      cultural_intelligence |-> Str("qloo_powered"),
      personalization |-> Str("gemini_enhanced"),
      agents_summary |-> Obj([
        agent1 |-> Str("Information consolidation with theme selection"),
        agent2 |-> Str("Simple photo analysis (theme-based)"),
        agent3 |-> Str("Qloo cultural intelligence (heritage-driven)"),
        agent4a |-> Str("Music curation with YouTube integration"),
        agent4b |-> Str("Recipe selection (microwave-safe)"),
        agent4c |-> Str("Photo description with cultural context"),
        agent5 |-> Str("Nostalgia News generation (Gemini AI)"),
        agent6 |-> Str("Dashboard synthesis and final assembly")])])])

(* ------------------------- inputs of the model ------------------------- *)
\* o with property k set to v
With(o, k, v) == Obj([j \in DOMAIN o.f \cup {k} |-> IF j = k THEN v ELSE o.f[j]])

\* full profiles as the profile form saves them
ProfileA ==
  Obj([first_name |-> Str("Ann"), last_name |-> Str("Lee"), name |-> Str("Ann"),
       birth_year |-> Num(1940), cultural_heritage |-> Str("Irish"),
       city |-> Str("Boston"), state |-> Str("MA"), phone |-> Str("555"),
       interests |-> Arr(<<Str("gardening")>>)])
ProfileB ==
  Obj([first_name |-> Str("Bob"), name |-> Str("Bob"), interests |-> Arr(<<>>)])
Profiles == {ProfileA, ProfileB}

\* parsed bodies of 2xx responses
LivePatientInfo ==
  Obj([name |-> Str("Ann"), cultural_heritage |-> Str("Irish"),
       age |-> Num(85), daily_theme |-> Str("Gardens")])
BodyNull == Null
BodyEmpty == EmptyObj
BodyNoPatientInfo == Obj([content |-> Obj([music |-> Obj([artist |-> Str("X")])])])
BodyNoContent == Obj([patient_info |-> LivePatientInfo])
BodyNullContent == Obj([content |-> Null, patient_info |-> LivePatientInfo])
\* well shaped, domain fields empty
BodyEmptyFields ==
  Obj([patient_info |-> Obj([name |-> Str(""), cultural_heritage |-> Str("Irish")]),
       content |-> Obj([
         music |-> Obj([artist |-> Str(""), piece_title |-> Str("Y"),
                        conversation_starters |-> Arr(<<>>)]),
         recipe |-> EmptyObj,
         photo |-> Obj([filename |-> Str("p.png"), description |-> Str("")]),
         nostalgia_news |-> Obj([title |-> Str(""), themes |-> Arr(<<>>)])]),
       metadata |-> Obj([agent_pipeline |-> Str("6_agent_enhanced")])])
\* well shaped and complete
BodyLive ==
  With(With(FALLBACK_API_RESPONSE, "patient_info", LivePatientInfo),
       "metadata", Obj([quality_score |-> Str("high"), theme |-> Str("Gardens"),
                        agent_pipeline |-> Str("6_agent_enhanced")]))
InvalidBodies ==
  {BodyNull, BodyEmpty, BodyNoPatientInfo, BodyNoContent, BodyNullContent}
ValidBodies == {BodyEmptyFields, BodyLive}
Bodies == InvalidBodies \cup ValidBodies

\* bundles the resolution pipeline hands to the cache
Bundles == ValidBodies \cup {FALLBACK_API_RESPONSE}

\* HTTP statuses a response can carry
Statuses == {200, 500}
\* response.ok
ResponseOk(status) == status >= 200 /\ status <= 299

(* ------------------------------- state --------------------------------- *)
VARIABLES
  localStorage,   \* key -> item
  today,          \* calendar day of the device clock
  data,           \* dashboardDataStore.data
  calls,          \* getDashboardData invocations
  listeners,      \* dashboardDataStore.listeners, in subscription order
  disposers,      \* the unsubscribe functions subscribe has returned
  stack,          \* setData / clearData invocations in progress, innermost last
  notes,          \* listener invocations since the outermost invocation began
  last            \* the operation just performed, with what it returned

storeVars == <<listeners, disposers, stack, notes>>
vars == <<localStorage, today, data, calls, listeners, disposers, stack, notes, last>>

(* ---------------------- feedbackManager (part_006) --------------------- *)
EmptyFeedback == Obj([likes |-> Arr(<<>>), dislikes |-> Arr(<<>>)])

getFeedback(ls) ==
  LET stored == ls[FEEDBACK_KEY] IN
  IF ItemFalsy(stored) \/ ParseThrows(stored) THEN EmptyFeedback ELSE Parse(stored)

\* variant: the new entry is put in front of the list
collectFeedback_Unshift(ls, type, item, category) ==
  LET feedback == getFeedback(ls)
      feedbackEntry == Obj([type |-> Str(type), item |-> Str(item),
                            category |-> Str(category),
                            timestamp |-> Str("now")])
      list == IF type = "like" THEN "likes" ELSE "dislikes"
      pushed == With(feedback, list, Arr(<<feedbackEntry>> \o Get(feedback, list).a))
  IN [ls EXCEPT ![FEEDBACK_KEY] = Stringify(pushed)]

\* the storage after collectFeedback(type, item, category); the entry's
\* timestamp is an instant that no reader in the code inspects
collectFeedback(ls, type, item, category) ==
  LET feedback == getFeedback(ls)
      feedbackEntry == Obj([type |-> Str(type), item |-> Str(item),
                            category |-> Str(category),
                            timestamp |-> Str("now")])
      list == IF type = "like" THEN "likes" ELSE "dislikes"
      pushed == With(feedback, list, Arr(Append(Get(feedback, list).a, feedbackEntry)))
  IN [ls EXCEPT ![FEEDBACK_KEY] = Stringify(pushed)]

clearFeedback(ls) == [ls EXCEPT ![FEEDBACK_KEY] = NoItem]

formatForAPI(ls) ==
  LET feedback == getFeedback(ls)
      items(l) == Arr([i \in DOMAIN l.a |-> Get(l.a[i], "item")])
  IN Obj([likes |-> items(Get(feedback, "likes")),
          dislikes |-> items(Get(feedback, "dislikes"))])

(* --------------------------- apiService (part_005) --------------------- *)
getTodayDateString(d) == Str(ToString(d))

DefaultLocalProfile ==
  Obj([first_name |-> Str("Guest"), name |-> Str("Guest"), birth_year |-> Num(1942),
       cultural_heritage |-> Str("Italian-American"),
       interests |-> Arr(<<Str("cooking"), Str("family"), Str("music")>>)])

getLocalProfile(ls) ==
  LET savedProfile == ls[PROFILE_KEY] IN
  IF ~ItemFalsy(savedProfile) /\ ~ParseThrows(savedProfile)
  THEN Parse(savedProfile)
  ELSE DefaultLocalProfile

updateLocalProfile(ls, profileData) ==
  [ls EXCEPT ![PROFILE_KEY] = Stringify(profileData)]

\* variant: the profile record is removed as well (as clearAllCaches does)
clearCache_AllCaches(ls) == [ls EXCEPT ![CACHE_KEY] = NoItem, ![PROFILE_KEY] = NoItem]

clearCache(ls) == [ls EXCEPT ![CACHE_KEY] = NoItem]

\* variant: an existing entry is kept instead of being overwritten
setCachedData_KeepExisting(ls, d, bundle, patientProfile) ==
  IF ls[CACHE_KEY].kind = "json" THEN ls
  ELSE [ls EXCEPT ![CACHE_KEY] =
          Stringify(Obj([date |-> getTodayDateString(d), data |-> bundle,
                         patientProfile |-> OrElse(patientProfile, getLocalProfile(ls)),
                         timestamp |-> Num(d)]))]

\* variant: the entry is stamped with the day before
setCachedData_DayBefore(ls, d, bundle, patientProfile) ==
  [ls EXCEPT ![CACHE_KEY] =
     Stringify(Obj([date |-> Str(ToString(d - 1)), data |-> bundle,
                    patientProfile |-> OrElse(patientProfile, getLocalProfile(ls)),
                    timestamp |-> Num(d)]))]

setCachedData(ls, d, bundle, patientProfile) ==
  LET cacheObject ==
        Obj([date |-> getTodayDateString(d),
             data |-> bundle,
             patientProfile |-> OrElse(patientProfile, getLocalProfile(ls)),
             timestamp |-> Num(d)])
  IN [ls EXCEPT ![CACHE_KEY] = Stringify(cacheObject)]

\* variant: an entry of another day is reported as a miss but left in place
getCachedData_KeepStale(ls, d) ==
  LET cached == ls[CACHE_KEY] IN
  IF ItemFalsy(cached)
  THEN [ls |-> ls, ret |-> Null, threw |-> FALSE, log |-> "none"]
  ELSE IF ParseThrows(cached)
  THEN [ls |-> clearCache(ls), ret |-> Null, threw |-> FALSE, log |-> "error"]
  ELSE LET cacheObject == Parse(cached) IN
    IF Throws(cacheObject)
    THEN [ls |-> clearCache(ls), ret |-> Null, threw |-> FALSE, log |-> "error"]
    ELSE IF Get(cacheObject, "date") = getTodayDateString(d)
    THEN [ls |-> IF Truthy(Get(cacheObject, "patientProfile"))
                 THEN [ls EXCEPT ![PROFILE_KEY] =
                         Stringify(Get(cacheObject, "patientProfile"))]
                 ELSE ls,
          ret |-> Get(cacheObject, "data"), threw |-> FALSE, log |-> "valid"]
    ELSE [ls |-> ls, ret |-> Null, threw |-> FALSE, log |-> "different_day"]

\* variant: without the try/catch around the read
getCachedData_NoCatch(ls, d) ==
  LET cached == ls[CACHE_KEY] IN
  IF ItemFalsy(cached)
  THEN [ls |-> ls, ret |-> Null, threw |-> FALSE, log |-> "none"]
  ELSE IF ParseThrows(cached)
  THEN [ls |-> ls, ret |-> Undefined, threw |-> TRUE, log |-> "none"]
  ELSE LET cacheObject == Parse(cached) IN
    IF Throws(cacheObject)
    THEN [ls |-> ls, ret |-> Undefined, threw |-> TRUE, log |-> "none"]
    ELSE IF Get(cacheObject, "date") = getTodayDateString(d)
    THEN [ls |-> IF Truthy(Get(cacheObject, "patientProfile"))
                 THEN [ls EXCEPT ![PROFILE_KEY] =
                         Stringify(Get(cacheObject, "patientProfile"))]
                 ELSE ls,
          ret |-> Get(cacheObject, "data"), threw |-> FALSE, log |-> "valid"]
    ELSE [ls |-> clearCache(ls), ret |-> Null, threw |-> FALSE, log |-> "different_day"]

\* getCachedData(): the storage it leaves, what it returns (null for a
\* miss), whether an exception escapes it, and the line it logs
getCachedData(ls, d) ==
  LET cached == ls[CACHE_KEY] IN
  IF ItemFalsy(cached)
  THEN [ls |-> ls, ret |-> Null, threw |-> FALSE, log |-> "none"]
  ELSE IF ParseThrows(cached)
  THEN [ls |-> clearCache(ls), ret |-> Null, threw |-> FALSE, log |-> "error"]
  ELSE LET cacheObject == Parse(cached) IN
    IF Throws(cacheObject)
    THEN [ls |-> clearCache(ls), ret |-> Null, threw |-> FALSE, log |-> "error"]
    ELSE IF Get(cacheObject, "date") = getTodayDateString(d)
    THEN [ls |-> IF Truthy(Get(cacheObject, "patientProfile"))
                 THEN [ls EXCEPT ![PROFILE_KEY] =
                         Stringify(Get(cacheObject, "patientProfile"))]
                 ELSE ls,
          ret |-> Get(cacheObject, "data"), threw |-> FALSE, log |-> "valid"]
    ELSE [ls |-> clearCache(ls), ret |-> Null, threw |-> FALSE, log |-> "different_day"]

\* variant: the threshold ages themselves fall into the younger group
calculateAgeGroup_Over(birthYear, year) ==
  IF ~Truthy(birthYear) THEN "senior"
  ELSE IF birthYear.t # "num" THEN "adult"
  ELSE IF year - birthYear.n > 80 THEN "oldest_senior"
  ELSE IF year - birthYear.n > 65 THEN "senior"
  ELSE "adult"

calculateAgeGroup(birthYear, year) ==
  IF ~Truthy(birthYear) THEN "senior"
  ELSE IF birthYear.t # "num" THEN "adult"
  ELSE IF year - birthYear.n >= 80 THEN "oldest_senior"
  ELSE IF year - birthYear.n >= 65 THEN "senior"
  ELSE "adult"

\* variant: the name of the source profile is carried along
createAnonymizedProfile_WithName(ls, profileData) ==
  LET sourceProfile == IF Truthy(profileData) THEN profileData ELSE getLocalProfile(ls) IN
  IF Throws(sourceProfile) THEN [threw |-> TRUE, v |-> Undefined]
  ELSE [threw |-> FALSE,
        v |-> Obj([
          name |-> Get(sourceProfile, "name"),
          age_group |-> Str(calculateAgeGroup(Get(sourceProfile, "birth_year"), BaseYear)),
          cultural_heritage |->
            OrElse(Get(sourceProfile, "cultural_heritage"), Str("American")),
          interests |->
            OrElse(Get(sourceProfile, "interests"),
                   Arr(<<Str("music"), Str("family"), Str("cooking")>>)),
          profile_complete |->
            Bool(Truthy(Get(sourceProfile, "cultural_heritage"))
                 /\ Truthy(Get(sourceProfile, "birth_year")))])]

\* createAnonymizedProfile(profileData): threw when reading a property of
\* the source profile raised a TypeError
createAnonymizedProfile(ls, profileData) ==
  LET sourceProfile == IF Truthy(profileData) THEN profileData ELSE getLocalProfile(ls) IN
  IF Throws(sourceProfile) THEN [threw |-> TRUE, v |-> Undefined]
  ELSE [threw |-> FALSE,
        v |-> Obj([
          age_group |-> Str(calculateAgeGroup(Get(sourceProfile, "birth_year"), BaseYear)),
          cultural_heritage |->
            OrElse(Get(sourceProfile, "cultural_heritage"), Str("American")),
          interests |->
            OrElse(Get(sourceProfile, "interests"),
                   Arr(<<Str("music"), Str("family"), Str("cooking")>>)),
          profile_complete |->
            Bool(Truthy(Get(sourceProfile, "cultural_heritage"))
                 /\ Truthy(Get(sourceProfile, "birth_year")))])]

\* a time+random token; its value is never read back
generateSessionId == Str("session")

\* variant: the fallback is published but not cached
useBulletproofFallback_NoCache(ls, d, reason) ==
  [data |-> FALLBACK_API_RESPONSE,
   ls |-> ls,
   result |-> FALLBACK_API_RESPONSE,
   via |-> reason]

\* useBulletproofFallback(reason): the store content and storage it leaves,
\* and what it returns
useBulletproofFallback(ls, d, reason) ==
  [data |-> FALLBACK_API_RESPONSE,
   ls |-> setCachedData(ls, d, FALLBACK_API_RESPONSE, getLocalProfile(ls)),
   result |-> FALLBACK_API_RESPONSE,
   via |-> reason]

\* variant: the parsed body is published without validation
AcceptBody_NoValidation(ls, d, body) ==
  [data |-> body,
   ls |-> setCachedData(ls, d, body, getLocalProfile(ls)),
   result |-> body,
   via |-> "live"]

\* variant: the body is rejected only when it lacks both keys
AcceptBody_BothMissing(ls, d, body) ==
  IF ~Truthy(OptGet(body, "content")) /\ ~Truthy(OptGet(body, "patient_info"))
  THEN useBulletproofFallback(ls, d, "INVALID_STRUCTURE")
  ELSE [data |-> body,
        ls |-> setCachedData(ls, d, body, getLocalProfile(ls)),
        result |-> body,
        via |-> "live"]

\* getDashboardData once response.json() has resolved with body (lines 59-79)
AcceptBody(ls, d, body) ==
  IF ~Truthy(OptGet(body, "content")) \/ ~Truthy(OptGet(body, "patient_info"))
  THEN useBulletproofFallback(ls, d, "INVALID_STRUCTURE")
  ELSE [data |-> body,
        ls |-> setCachedData(ls, d, body, getLocalProfile(ls)),
        result |-> body,
        via |-> "live"]

(* ------------------------------ actions -------------------------------- *)
\* Every action records in last the operation performed and what it
\* returned.  For the steps of a getDashboardData invocation, outcome says
\* whether the promise is still pending, resolved (with result, produced by
\* branch via) or rejected.
IdleCall == [pc |-> "idle", request |-> Undefined]

\* a new invocation takes the first slot that is not in flight
Free(c) ==
  /\ calls[c].pc = "idle"
  /\ \A b \in DOMAIN calls : b < c => calls[b].pc # "idle"

Pending == [outcome |-> "pending", via |-> "none", result |-> Undefined]
Rejected == [outcome |-> "rejected", via |-> "none", result |-> Undefined]

\* getDashboardData up to its first await, entered with storage ls0 and
\* store content data0 (lines 15-48)
StartCall(c, ls0, data0, patientProfile, feedback, forceRefresh) ==
  LET look == IF forceRefresh THEN [ls |-> ls0, ret |-> Null, threw |-> FALSE]
              ELSE getCachedData(ls0, today)
      anon == createAnonymizedProfile(look.ls, patientProfile)
  IN
  IF look.threw
  THEN [ls |-> look.ls, data |-> data0, call |-> IdleCall, ret |-> Rejected]
  ELSE IF Truthy(look.ret)
  THEN [ls |-> look.ls, data |-> look.ret, call |-> IdleCall,
        ret |-> [outcome |-> "resolved", via |-> "cache", result |-> look.ret]]
  ELSE IF anon.threw
  THEN [ls |-> look.ls, data |-> data0, call |-> IdleCall, ret |-> Rejected]
  ELSE [ls |-> look.ls, data |-> data0,
        call |-> [pc |-> "fetch",
                  request |-> Obj([patient_profile |-> anon.v,
                                   session_id |-> generateSessionId,
                                   feedback_data |-> OrElse(feedback, EmptyFeedback)])],
        ret |-> Pending]

GetDashboardData(c, patientProfile, feedback, forceRefresh) ==
  /\ Free(c)
  /\ \E r \in {StartCall(c, localStorage, data, patientProfile, feedback, forceRefresh)} :
       /\ localStorage' = r.ls
       /\ data' = r.data
       /\ calls' = [calls EXCEPT ![c] = r.call]
       /\ last' = [op |-> "getDashboardData", call |-> c, force |-> forceRefresh,
                   outcome |-> r.ret.outcome, via |-> r.ret.via, result |-> r.ret.result]
       /\ UNCHANGED <<today, storeVars>>

\* refreshDashboard: clearCache(), clearData(), getDashboardData(.., true)
RefreshDashboard(c, patientProfile, feedback) ==
  /\ Free(c)
  /\ \E r \in {StartCall(c, clearCache(localStorage), Null, patientProfile, feedback, TRUE)} :
       /\ localStorage' = r.ls
       /\ data' = r.data
       /\ calls' = [calls EXCEPT ![c] = r.call]
       /\ last' = [op |-> "refreshDashboard", call |-> c, force |-> TRUE,
                   outcome |-> r.ret.outcome, via |-> r.ret.via, result |-> r.ret.result]
       /\ UNCHANGED <<today, storeVars>>

\* the invocation returns what pub describes
Finish(c, pub) ==
  /\ data' = pub.data
  /\ localStorage' = pub.ls
  /\ calls' = [calls EXCEPT ![c] = IdleCall]

\* the fetch promise settles: it rejects, or resolves with a response
FetchRejects(c) ==
  /\ calls[c].pc = "fetch"
  /\ \E pub \in {useBulletproofFallback(localStorage, today, "NETWORK_ERROR")} :
       /\ Finish(c, pub)
       /\ last' = [op |-> "fetchRejects", call |-> c,
                   outcome |-> "resolved", via |-> pub.via, result |-> pub.result]
       /\ UNCHANGED <<today, storeVars>>

FetchResolves(c, status) ==
  /\ calls[c].pc = "fetch"
  /\ \E pub \in {useBulletproofFallback(localStorage, today, "API_ERROR")} :
       /\ IF ~ResponseOk(status)
          THEN /\ Finish(c, pub)
               /\ last' = [op |-> "fetchResolves", call |-> c, status |-> status,
                           outcome |-> "resolved", via |-> pub.via, result |-> pub.result]
          ELSE /\ calls' = [calls EXCEPT ![c].pc = "json"]
               /\ last' = [op |-> "fetchResolves", call |-> c, status |-> status,
                           outcome |-> "pending", via |-> "none", result |-> Undefined]
               /\ UNCHANGED <<data, localStorage>>
       /\ UNCHANGED <<today, storeVars>>

\* response.json() settles: it rejects, or resolves with the parsed body
JsonRejects(c) ==
  /\ calls[c].pc = "json"
  /\ \E pub \in {useBulletproofFallback(localStorage, today, "NETWORK_ERROR")} :
       /\ Finish(c, pub)
       /\ last' = [op |-> "jsonRejects", call |-> c,
                   outcome |-> "resolved", via |-> pub.via, result |-> pub.result]
       /\ UNCHANGED <<today, storeVars>>

JsonResolves(c, body) ==
  /\ calls[c].pc = "json"
  /\ \E pub \in {AcceptBody(localStorage, today, body)} :
       /\ Finish(c, pub)
       /\ last' = [op |-> "jsonResolves", call |-> c, body |-> body,
                   outcome |-> "resolved", via |-> pub.via, result |-> pub.result]
       /\ UNCHANGED <<today, storeVars>>

\* direct uses of the cache and profile operations
SetCachedData(bundle, patientProfile) ==
  /\ localStorage' = setCachedData(localStorage, today, bundle, patientProfile)
  /\ last' = [op |-> "setCachedData", bundle |-> bundle]
  /\ UNCHANGED <<today, data, calls, storeVars>>

GetCachedData ==
  \E r \in {getCachedData(localStorage, today)} :
  /\ localStorage' = r.ls
  /\ last' = [op |-> "getCachedData", ret |-> r.ret, threw |-> r.threw, log |-> r.log]
  /\ UNCHANGED <<today, data, calls, storeVars>>

ClearCache ==
  /\ localStorage' = clearCache(localStorage)
  /\ last' = [op |-> "clearCache"]
  /\ UNCHANGED <<today, data, calls, storeVars>>

UpdateLocalProfile(profileData) ==
  /\ localStorage' = updateLocalProfile(localStorage, profileData)
  /\ last' = [op |-> "updateLocalProfile"]
  /\ UNCHANGED <<today, data, calls, storeVars>>

FeedbackCount(ls) ==
  Len(Get(getFeedback(ls), "likes").a) + Len(Get(getFeedback(ls), "dislikes").a)

CollectFeedback(type, item, category) ==
  /\ FeedbackCount(localStorage) < MaxFeedback
  /\ localStorage' = collectFeedback(localStorage, type, item, category)
  /\ last' = [op |-> "collectFeedback"]
  /\ UNCHANGED <<today, data, calls, storeVars>>

ClearFeedback ==
  /\ localStorage' = clearFeedback(localStorage)
  /\ last' = [op |-> "clearFeedback"]
  /\ UNCHANGED <<today, data, calls, storeVars>>

\* App.handleFeedback: the like and dislike buttons of the views
FeedbackItems ==
  {[item |-> "song", category |-> "music"], [item |-> "soup", category |-> "recipe"]}

HandleFeedback(type, item, category) ==
  /\ FeedbackCount(localStorage) < MaxEntries
  /\ localStorage' = collectFeedback(localStorage, type, item, category)
  /\ last' = [op |-> "handleFeedback", type |-> type, item |-> item,
              category |-> category]
  /\ UNCHANGED <<today, data, calls, storeVars>>

\* the log read for a request
FormatForAPI ==
  /\ last' = [op |-> "formatForAPI", ret |-> formatForAPI(localStorage)]
  /\ UNCHANGED <<localStorage, today, data, calls, storeVars>>

\* the device clock shows another calendar day (forward or backward)
ClockChange(d) ==
  /\ d # today
  /\ today' = d
  /\ last' = [op |-> "clockChange"]
  /\ UNCHANGED <<localStorage, data, calls, storeVars>>

\* the anonymization applied to the profiles the form can save
BirthYears == (BaseYear - MaxAge)..BaseYear

SourceProfiles ==
  LET years == {Num(y) : y \in BirthYears}
      heritages == {Str(""), Str("Irish")}
      lists == {Arr(<<>>), Arr(<<Str("gardening")>>)}
      a == Str("Ann")
      c == Str("Boston")
      s == Str("MA")
  IN    {Obj([first_name |-> a, name |-> a, city |-> c, state |-> s])}
   \cup {Obj([first_name |-> a, name |-> a, city |-> c, state |-> s,
              birth_year |-> by]) : by \in years}
   \cup {Obj([first_name |-> a, name |-> a, city |-> c, state |-> s,
              cultural_heritage |-> h]) : h \in heritages}
   \cup {Obj([first_name |-> a, name |-> a, city |-> c, state |-> s,
              interests |-> i]) : i \in lists}
   \cup {Obj([first_name |-> a, name |-> a, city |-> c, state |-> s,
              birth_year |-> by, cultural_heritage |-> h]) :
           by \in years, h \in heritages}
   \cup {Obj([first_name |-> a, name |-> a, city |-> c, state |-> s,
              birth_year |-> by, interests |-> i]) : by \in years, i \in lists}
   \cup {Obj([first_name |-> a, name |-> a, city |-> c, state |-> s,
              cultural_heritage |-> h, interests |-> i]) :
           h \in heritages, i \in lists}
   \cup {Obj([first_name |-> a, name |-> a, city |-> c, state |-> s,
              birth_year |-> by, cultural_heritage |-> h, interests |-> i]) :
           by \in years, h \in heritages, i \in lists}

\* calculateAgeGroup(birthYear) evaluated in calendar year year, for the
\* input the behaviour started with
CalculateAgeGroup(birthYear, year) ==
  /\ last.op = "init"
  /\ last' = [op |-> "calculateAgeGroup", birthYear |-> birthYear, year |-> year,
              ret |-> calculateAgeGroup(birthYear, year)]
  /\ UNCHANGED <<localStorage, today, data, calls, storeVars>>

CreateAnonymizedProfile(profileData) ==
  \E r \in {createAnonymizedProfile(localStorage, profileData)} :
    /\ last.op = "init"
    /\ last' = [op |-> "createAnonymizedProfile",
                source |-> IF Truthy(profileData) THEN profileData
                           ELSE getLocalProfile(localStorage),
                threw |-> r.threw, ret |-> r.v]
    /\ UNCHANGED <<localStorage, today, data, calls, storeVars>>


(* ------------------- the interface (part_007, part_011, Demo.js) ------- *)
\* Every invocation started from the interface carries who started it (by)
\* and the profile handed to loadDashboardData (profileToUse).
Slots == 1..MaxLoads

AppDefaultProfile ==
  Obj([name |-> Str("Lily"), first_name |-> Str("Lily"), last_name |-> Str(""),
       birth_year |-> Num(1942), cultural_heritage |-> Str("Italian-American"),
       city |-> Str("Brooklyn"), state |-> Str("New York"),
       interests |-> Arr(<<Str("cooking"), Str("family"), Str("music")>>),
       current_age |-> Num(BaseYear - 1942)])

\* App's loading flag: true while loadDashboardData awaits its call
loading == \E c \in DOMAIN calls : calls[c].pc # "idle" /\ calls[c].by = "app"

\* Demo's isRunning flag stays true at least until the demo's call settled
isRunning == \E c \in DOMAIN calls : calls[c].pc # "idle" /\ calls[c].by = "demo"

\* the first render has run its effect, and the spinner is not shown
Interactive == last.op # "init" /\ ~loading

\* the profile loadDashboardData(profileToUse) sends, and the storage after
\* it has stored the default profile
loadDashboardData(ls, profileToUse) ==
  LET storedProfile == ls[PROFILE_KEY]
      currentProfile ==
        IF Truthy(profileToUse) THEN profileToUse
        ELSE IF ItemFalsy(storedProfile) \/ ParseThrows(storedProfile) THEN Null
        ELSE Parse(storedProfile)
  IN IF Truthy(currentProfile)
     THEN [ls |-> ls, currentProfile |-> currentProfile]
     ELSE [ls |-> [ls EXCEPT ![PROFILE_KEY] = Stringify(AppDefaultProfile)],
           currentProfile |-> AppDefaultProfile]

\* the interface starts invocation r in slot c
Launch(c, op, by, profileToUse, r) ==
  /\ localStorage' = r.ls
  /\ data' = r.data
  /\ calls' = [calls EXCEPT ![c] =
                 IF r.call.pc = "idle" THEN IdleCall
                 ELSE [pc |-> r.call.pc, request |-> r.call.request,
                       by |-> by, profileToUse |-> profileToUse]]
  /\ last' = [op |-> op, call |-> c, force |-> (by # "app"),
              profileToUse |-> profileToUse,
              outcome |-> r.ret.outcome, via |-> r.ret.via, result |-> r.ret.result]
  /\ UNCHANGED <<today, storeVars>>

LoadDashboardData(c, op, ls0, profileToUse) ==
  /\ Free(c)
  /\ \E l \in {loadDashboardData(ls0, profileToUse)} :
       \E r \in {StartCall(c, l.ls, data, l.currentProfile, formatForAPI(l.ls), FALSE)} :
         Launch(c, op, "app", profileToUse, r)

\* useEffect(() => { loadDashboardData() }, ..) on mount
Mount ==
  /\ last.op = "init"
  /\ \E c \in Slots : LoadDashboardData(c, "mount", localStorage, Null)

HandleReturnToDashboard ==
  /\ Interactive
  /\ \E c \in Slots : LoadDashboardData(c, "handleReturnToDashboard", localStorage, Null)

HandleProfileUpdate(updatedProfile) ==
  /\ Interactive
  /\ \E profileWithName \in
         {With(updatedProfile, "name",
               OrElse(Get(updatedProfile, "first_name"), Get(updatedProfile, "name")))} :
       \E c \in Slots :
         LoadDashboardData(c, "handleProfileUpdate",
                           [localStorage EXCEPT ![PROFILE_KEY] = Stringify(profileWithName)],
                           profileWithName)

\* Profile.handleRefresh, confirmed by the user
HandleRefresh(patientProfile) ==
  /\ Interactive
  /\ \E c \in Slots :
       /\ Free(c)
       /\ \E r \in {StartCall(c, clearCache(localStorage), Null, patientProfile,
                              formatForAPI(localStorage), TRUE)} :
            Launch(c, "handleRefresh", "profile", Null, r)

\* Demo.runDemo: apiService.refreshDashboard() started in the background
RunDemo ==
  /\ Interactive
  /\ ~isRunning
  /\ \E c \in Slots :
       /\ Free(c)
       /\ \E r \in {StartCall(c, clearCache(localStorage), Null, Null, Null, TRUE)} :
            Launch(c, "runDemo", "demo", Null, r)

(* ------------------ dashboardDataStore: read accessors ----------------- *)
\* isUsingFallback() when the store holds d
isUsingFallback(d) ==
  d = Null \/ OptGet(OptGet(d, "metadata"), "agent_pipeline") = Str("fallback_mode")

\* variant: the stored value is returned whatever it is
getData_NoFallback(d) == d

\* getData()
getData(d) == IF Truthy(d) THEN d ELSE FALLBACK_API_RESPONSE

\* Object.keys(v).length === 0, for a v that is not null or undefined
NoKeys(v) ==
  CASE v.t = "obj" -> DOMAIN v.f = {}
    [] v.t = "arr" -> Len(v.a) = 0
    [] v.t = "str" -> v.s = ""
    [] OTHER -> TRUE

\* v.length > 0 and v.length === 0
LengthPositive(v) ==
  CASE v.t = "arr" -> Len(v.a) > 0
    [] v.t = "str" -> v.s # ""
    [] OTHER -> FALSE
LengthZero(v) ==
  CASE v.t = "arr" -> Len(v.a) = 0
    [] v.t = "str" -> v.s = ""
    [] OTHER -> FALSE

\* apiData.k || fallbackData.k
ScalarOr(apiData, fallbackData, k) == OrElse(Get(apiData, k), Get(fallbackData, k))

\* variant: an empty list counts as given, as apiData.k || fallbackData.k
ListOr_Truthy(apiData, fallbackData, k) == OrElse(Get(apiData, k), Get(fallbackData, k))

\* apiData.k && apiData.k.length > 0 ? apiData.k : fallbackData.k
ListOr(apiData, fallbackData, k) ==
  IF Truthy(Get(apiData, k)) /\ LengthPositive(Get(apiData, k))
  THEN Get(apiData, k) ELSE Get(fallbackData, k)

\* !apiData.k   and   !apiData.k || apiData.k.length === 0
ScalarMissing(apiData, k) == ~Truthy(Get(apiData, k))
ListMissing(apiData, k) == ~Truthy(Get(apiData, k)) \/ LengthZero(Get(apiData, k))

\* this.data?.content?.<domain> || {}   and   this.data?.patient_info || {}
ApiData(d, name) ==
  IF name = "patient_info" THEN OrElse(OptGet(d, "patient_info"), EmptyObj)
  ELSE OrElse(OptGet(OptGet(d, "content"), name), EmptyObj)

\* FALLBACK_API_RESPONSE.content.<domain>   and   FALLBACK_API_RESPONSE.patient_info
FallbackData(name) ==
  IF name = "patient_info" THEN Get(FALLBACK_API_RESPONSE, "patient_info")
  ELSE Get(Get(FALLBACK_API_RESPONSE, "content"), name)

\* !apiData || Object.keys(apiData).length === 0
NoApiData(apiData) == ~Truthy(apiData) \/ NoKeys(apiData)

\* each accessor yields what it returns and the filledElements it logs
\* (all: the complete fallback was used)
CompleteFallback(name) == [ret |-> FallbackData(name), filled |-> {"all"}]

\* variant: with no API data the accessor returns the empty API object
getMusicData_NoFallback(d) ==
  LET apiData == ApiData(d, "music")
      fallbackData == FallbackData("music")
  IN IF NoApiData(apiData) THEN [ret |-> apiData, filled |-> {"all"}]
     ELSE [ret |-> Obj([
             artist |-> ScalarOr(apiData, fallbackData, "artist"),
             piece_title |-> ScalarOr(apiData, fallbackData, "piece_title"),
             youtube_url |-> ScalarOr(apiData, fallbackData, "youtube_url"),
             youtube_embed |-> ScalarOr(apiData, fallbackData, "youtube_embed"),
             conversation_starters |-> ListOr(apiData, fallbackData, "conversation_starters"),
             fun_fact |-> ScalarOr(apiData, fallbackData, "fun_fact")]),
           filled |->
             {k \in {"artist", "piece_title", "youtube_url", "youtube_embed", "fun_fact"} :
                ScalarMissing(apiData, k)}
             \cup {k \in {"conversation_starters"} : ListMissing(apiData, k)}]

getMusicData(d) ==
  LET apiData == ApiData(d, "music")
      fallbackData == FallbackData("music")
  IN IF NoApiData(apiData) THEN CompleteFallback("music")
     ELSE [ret |-> Obj([
             artist |-> ScalarOr(apiData, fallbackData, "artist"),
             piece_title |-> ScalarOr(apiData, fallbackData, "piece_title"),
             youtube_url |-> ScalarOr(apiData, fallbackData, "youtube_url"),
             youtube_embed |-> ScalarOr(apiData, fallbackData, "youtube_embed"),
             conversation_starters |-> ListOr(apiData, fallbackData, "conversation_starters"),
             fun_fact |-> ScalarOr(apiData, fallbackData, "fun_fact")]),
           filled |->
             {k \in {"artist", "piece_title", "youtube_url", "youtube_embed", "fun_fact"} :
                ScalarMissing(apiData, k)}
             \cup {k \in {"conversation_starters"} : ListMissing(apiData, k)}]

getPhotoData(d) ==
  LET apiData == ApiData(d, "photo")
      fallbackData == FallbackData("photo")
  IN IF NoApiData(apiData) THEN CompleteFallback("photo")
     ELSE [ret |-> Obj([
             filename |-> ScalarOr(apiData, fallbackData, "filename"),
             description |-> ScalarOr(apiData, fallbackData, "description"),
             cultural_context |-> ScalarOr(apiData, fallbackData, "cultural_context"),
             conversation_starters |-> ListOr(apiData, fallbackData, "conversation_starters")]),
           filled |->
             {k \in {"filename", "description", "cultural_context"} :
                ScalarMissing(apiData, k)}
             \cup {k \in {"conversation_starters"} : ListMissing(apiData, k)}]

getRecipeData(d) ==
  LET apiData == ApiData(d, "recipe")
      fallbackData == FallbackData("recipe")
  IN IF NoApiData(apiData) THEN CompleteFallback("recipe")
     ELSE [ret |-> Obj([
             name |-> ScalarOr(apiData, fallbackData, "name"),
             ingredients |-> ListOr(apiData, fallbackData, "ingredients"),
             instructions |-> ListOr(apiData, fallbackData, "instructions"),
             conversation_starters |-> ListOr(apiData, fallbackData, "conversation_starters")]),
           filled |->
             {k \in {"name"} : ScalarMissing(apiData, k)}
             \cup {k \in {"ingredients", "instructions", "conversation_starters"} :
                     ListMissing(apiData, k)}]

getNostalgiaData(d) ==
  LET apiData == ApiData(d, "nostalgia_news")
      fallbackData == FallbackData("nostalgia_news")
      apiSections == OrElse(Get(apiData, "sections"), EmptyObj)
      fallbackSections == OrElse(Get(fallbackData, "sections"), EmptyObj)
      mergedSections ==
        Obj([memory_spotlight |-> ScalarOr(apiSections, fallbackSections, "memory_spotlight"),
             era_highlights |-> ScalarOr(apiSections, fallbackSections, "era_highlights"),
             heritage_traditions |->
               ScalarOr(apiSections, fallbackSections, "heritage_traditions"),
             conversation_starters |->
               ScalarOr(apiSections, fallbackSections, "conversation_starters")])
  IN IF NoApiData(apiData) THEN CompleteFallback("nostalgia_news")
     ELSE [ret |-> Obj([
             title |-> ScalarOr(apiData, fallbackData, "title"),
             subtitle |-> ScalarOr(apiData, fallbackData, "subtitle"),
             date |-> ScalarOr(apiData, fallbackData, "date"),
             personalized_for |-> ScalarOr(apiData, fallbackData, "personalized_for"),
             sections |-> mergedSections,
             themes |-> ListOr(apiData, fallbackData, "themes"),
             metadata |-> ScalarOr(apiData, fallbackData, "metadata")]),
           filled |->
             {k \in {"title", "subtitle"} : ScalarMissing(apiData, k)}
             \cup (IF ~Truthy(Get(apiData, "sections")) \/ NoKeys(Get(apiData, "sections"))
                   THEN {"all_sections"}
                   ELSE {k \in {"memory_spotlight", "era_highlights",
                                "heritage_traditions", "conversation_starters"} :
                           ScalarMissing(apiSections, k)})
             \cup {k \in {"themes"} : ListMissing(apiData, k)}]

getPatientInfo(d) ==
  LET apiData == ApiData(d, "patient_info")
      fallbackData == FallbackData("patient_info")
  IN IF NoApiData(apiData) THEN CompleteFallback("patient_info")
     ELSE [ret |-> Obj([
             name |-> ScalarOr(apiData, fallbackData, "name"),
             cultural_heritage |-> ScalarOr(apiData, fallbackData, "cultural_heritage"),
             age |-> ScalarOr(apiData, fallbackData, "age"),
             daily_theme |-> ScalarOr(apiData, fallbackData, "daily_theme")]),
           filled |->
             {k \in {"name", "cultural_heritage", "age", "daily_theme"} :
                ScalarMissing(apiData, k)}]

DomainNames == {"music", "photo", "recipe", "nostalgia_news", "patient_info"}

\* the accessor of a domain
Accessor(name, d) ==
  CASE name = "music" -> getMusicData(d)
    [] name = "photo" -> getPhotoData(d)
    [] name = "recipe" -> getRecipeData(d)
    [] name = "nostalgia_news" -> getNostalgiaData(d)
    [] OTHER -> getPatientInfo(d)

\* live domain objects: every object whose fields take one of the listed
\* values each, a field listed as undefined being left out
FromOptions(opts) ==
  LET values == UNION {opts[k] : k \in DOMAIN opts} IN
  {Normalize(Obj(f)) : f \in {g \in [DOMAIN opts -> values] :
                                \A k \in DOMAIN opts : g[k] \in opts[k]}}

LiveSpotlight == Obj([headline |-> Str("H"), content |-> Str("C")])
LiveSections ==
  Obj([memory_spotlight |-> LiveSpotlight, era_highlights |-> LiveSpotlight,
       heritage_traditions |-> LiveSpotlight,
       conversation_starters |-> Obj([questions |-> Arr(<<Str("q")>>)])])

LiveOptions ==
  [music |->
     [artist |-> {Undefined, Null, Str(""), Str("X")},
      conversation_starters |-> {Undefined, Null, Arr(<<>>), Arr(<<Str("q")>>)},
      fun_fact |-> {Undefined, Str("F")}],
   photo |->
     [filename |-> {Undefined, Str(""), Str("p.png")},
      cultural_context |-> {Undefined, Str("C")},
      conversation_starters |-> {Undefined, Arr(<<>>), Arr(<<Str("q")>>)}],
   recipe |->
     [name |-> {Undefined, Str(""), Str("R")},
      ingredients |-> {Undefined, Arr(<<>>), Arr(<<Str("i")>>)},
      instructions |-> {Undefined, Arr(<<Str("s")>>)}],
   nostalgia_news |->
     [title |-> {Undefined, Str(""), Str("T")},
      themes |-> {Undefined, Arr(<<>>), Arr(<<Str("th")>>)},
      sections |-> {Undefined, EmptyObj, Obj([memory_spotlight |-> EmptyObj]),
                    Obj([memory_spotlight |-> LiveSpotlight]), LiveSections},
      metadata |-> {Undefined, EmptyObj, Obj([generated_by |-> Str("live")])}],
   patient_info |->
     [name |-> {Undefined, Str(""), Str("Ann")},
      age |-> {Undefined, Num(0), Num(85)},
      daily_theme |-> {Undefined, Str("Gardens")}]]

\* a live domain object with every field of the reference domain present,
\* and one that carries a further field
CompleteLive(name) ==
  IF name = "nostalgia_news"
  THEN With(With(FallbackData(name), "title", Str("T")), "sections", LiveSections)
  ELSE IF name = "patient_info" THEN With(FallbackData(name), "name", Str("Ann"))
  ELSE With(FallbackData(name), "conversation_starters", Arr(<<Str("q")>>))
ExtraLive(name) == With(CompleteLive(name), "source", Str("live"))

Lives(name) == FromOptions(LiveOptions[name]) \cup {CompleteLive(name), ExtraLive(name)}

\* a bundle that carries the one domain
BundleOf(name, live) ==
  IF name = "patient_info" THEN Obj([patient_info |-> live, content |-> EmptyObj])
  ELSE Obj([patient_info |-> LivePatientInfo, content |-> Obj([j \in {name} |-> live])])

\* what setData can be handed
StoreValues ==
  {Null, Undefined, Num(0), Str(""), Bool(FALSE), EmptyObj, FALLBACK_API_RESPONSE,
   BodyLive, BodyEmptyFields, BodyNoPatientInfo, BodyNoContent, BodyNullContent}
    \cup UNION {{BundleOf(name, live) : live \in Lives(name)} : name \in DomainNames}

\* application code reads the store
GetData ==
  /\ stack = <<>>
  /\ last' = [op |-> "getData", ret |-> getData(data)]
  /\ UNCHANGED <<localStorage, today, data, calls, storeVars>>

Read(name) ==
  /\ stack = <<>>
  /\ last' = [op |-> "read", domain |-> name,
              ret |-> Accessor(name, data).ret, filled |-> Accessor(name, data).filled]
  /\ UNCHANGED <<localStorage, today, data, calls, storeVars>>

(* ------------------ dashboardDataStore: subscriptions ------------------ *)
\* listener functions handed to subscribe: "a" only records what it is
\* given, "t" throws, "s" answers any bundle other than ListenerBundle by
\* calling setData(ListenerBundle) before it returns
Listeners == {"a", "t", "s"}
ListenerThrows(listener) == listener = "t"
ListenerBundle == BodyNoPatientInfo
ListenerSetsData(listener, value) == listener = "s" /\ value # ListenerBundle

\* bundles handed to setData by application code
StoreUpdates == {BodyNoContent, ListenerBundle}

\* subscribe(listener): this.listeners.push(listener)
subscribe(ls, listener) == Append(ls, listener)

\* the function subscribe returns: this.listeners.filter(l => l !== listener)
unsubscribe(ls, listener) == SelectSeq(ls, LAMBDA l : l # listener)

\* an invocation of setData or clearData: forEach walks the array that
\* this.listeners held when the walk began, from index 1 to its length then
Frame(id, op, arg, ls) ==
  [id |-> id, op |-> op, arg |-> arg, snap |-> ls, k |-> 1]

Top == stack[Len(stack)]

\* number given to the next invocation since the outermost one began
NextId ==
  LET used == {stack[i].id : i \in DOMAIN stack} \cup {notes[i].call : i \in DOMAIN notes}
  IN IF used = {} THEN 1 ELSE 1 + CHOOSE m \in used : \A n \in used : n <= m

\* what the walk hands to a listener: setData passes this.data as it is at
\* that moment, clearData passes null
Handed(frame) == IF frame.op = "setData" THEN data ELSE Null

\* the walk of the remaining frames after the innermost one has returned:
\* the listener that made the call returns, and the walk below moves on
Resume(frames) ==
  IF frames = <<>> THEN frames
  ELSE [frames EXCEPT ![Len(frames)].k = @ + 1]

\* application code calls setData(dashboardData)
SetData(dashboardData) ==
  /\ stack = <<>>
  /\ data' = dashboardData
  /\ stack' = <<Frame(1, "setData", dashboardData, listeners)>>
  /\ notes' = <<>>
  /\ last' = [op |-> "setData", arg |-> dashboardData]
  /\ UNCHANGED <<localStorage, today, calls, listeners, disposers>>

\* application code calls clearData()
ClearData ==
  /\ stack = <<>>
  /\ data' = Null
  /\ stack' = <<Frame(1, "clearData", Null, listeners)>>
  /\ notes' = <<>>
  /\ last' = [op |-> "clearData"]
  /\ UNCHANGED <<localStorage, today, calls, listeners, disposers>>

\* forEach invokes the next listener of the innermost walk; the listener
\* returns, throws (nothing in the store catches, so every invocation in
\* progress is abandoned), or calls setData itself
Notify ==
  /\ stack # <<>>
  /\ Top.k <= Len(Top.snap)
  /\ LET listener == Top.snap[Top.k]
         value == Handed(Top)
     IN /\ notes' = Append(notes, [call |-> Top.id, arg |-> Top.arg, k |-> Top.k,
                                   listener |-> listener, value |-> value])
        /\ IF ListenerThrows(listener)
           THEN /\ stack' = <<>>
                /\ data' = data
                /\ last' = [op |-> "threw", frames |-> stack]
           ELSE IF ListenerSetsData(listener, value)
           THEN /\ data' = ListenerBundle
                /\ stack' = Append(stack, Frame(NextId, "setData", ListenerBundle, listeners))
                /\ last' = [op |-> "setData", arg |-> ListenerBundle]
           ELSE /\ stack' = [stack EXCEPT ![Len(stack)].k = @ + 1]
                /\ data' = data
                /\ last' = [op |-> "notify", listener |-> listener]
  /\ UNCHANGED <<localStorage, today, calls, listeners, disposers>>

\* the innermost walk has passed its last listener: the invocation returns
Return ==
  /\ stack # <<>>
  /\ Top.k > Len(Top.snap)
  /\ stack' = Resume(SubSeq(stack, 1, Len(stack) - 1))
  /\ last' = [op |-> "returned", frames |-> <<Top>>]
  /\ UNCHANGED <<localStorage, today, data, calls, listeners, disposers, notes>>

\* application code calls subscribe(listener) and keeps what it returns
Subscribe(listener) ==
  /\ stack = <<>>
  /\ Len(disposers) < MaxSubscribes
  /\ listeners' = subscribe(listeners, listener)
  /\ disposers' = Append(disposers, [listener |-> listener, called |-> FALSE])
  /\ last' = [op |-> "subscribe", listener |-> listener]
  /\ UNCHANGED <<localStorage, today, data, calls, stack, notes>>

\* application code calls the i-th function subscribe has returned
Unsubscribe(i) ==
  /\ stack = <<>>
  /\ i \in DOMAIN disposers
  /\ listeners' = unsubscribe(listeners, disposers[i].listener)
  /\ disposers' = [disposers EXCEPT ![i].called = TRUE]
  /\ last' = [op |-> "unsubscribe", disposer |-> i, again |-> disposers[i].called]
  /\ UNCHANGED <<localStorage, today, data, calls, stack, notes>>

(* --------------------------- specification ----------------------------- *)
CacheEntry(d, bundle, profile) ==
  Stringify(Obj([date |-> getTodayDateString(d), data |-> bundle,
                 patientProfile |-> profile, timestamp |-> Num(d)]))

InitCaches ==
  {NoItem, EmptyText, CorruptText, JsonText(Null)}
    \cup {CacheEntry(d, FALLBACK_API_RESPONSE, ProfileA) : d \in Days}

InitProfiles == {NoItem, CorruptText, JsonText(Null), Stringify(ProfileA)}

Init ==
  /\ localStorage \in {[k \in Keys |->
                          IF k = CACHE_KEY THEN c
                          ELSE IF k = PROFILE_KEY THEN p ELSE NoItem] :
                        c \in InitCaches, p \in InitProfiles}
  /\ today = 1
  /\ data = Null
  /\ calls = [c \in Calls |-> IdleCall]
  /\ listeners = <<>>
  /\ disposers = <<>>
  /\ stack = <<>>
  /\ notes = <<>>
  /\ last = [op |-> "init"]

\* the profile argument of a load: none, or the profile being edited
ProfileArgs == {ProfileB, Null}

\* loads and refreshes, with the profile form and the clock
Next ==
  \/ \E c \in Calls, p \in ProfileArgs, force \in BOOLEAN :
       GetDashboardData(c, p, formatForAPI(localStorage), force)
  \/ \E c \in Calls, p \in ProfileArgs : RefreshDashboard(c, p, Null)
  \/ \E c \in Calls : FetchRejects(c)
  \/ \E c \in Calls, status \in Statuses : FetchResolves(c, status)
  \/ \E c \in Calls : JsonRejects(c)
  \/ \E c \in Calls, body \in Bodies : JsonResolves(c, body)
  \/ ClearCache
  \/ \E p \in Profiles : UpdateLocalProfile(p)
  \/ \E d \in Days : ClockChange(d)

Spec == Init /\ [][Next]_vars

\* loads while time passes: the clock keeps advancing whatever else happens,
\* and no step of a load is scheduled by it, because the request is issued
\* without a timer or an abort signal; when the network answers is left open
SpecTimeout ==
  Init /\ [][Next]_vars /\ WF_vars(\E d \in Days : ClockChange(d))

\* the day cache, the profile record and the feedback log used directly,
\* and the refresh that starts by clearing the cache
NextCache ==
  \/ \E bundle \in Bundles, p \in ProfileArgs : SetCachedData(bundle, p)
  \/ GetCachedData
  \/ ClearCache
  \/ \E c \in Calls, p \in ProfileArgs : RefreshDashboard(c, p, Null)
  \/ \E p \in Profiles : UpdateLocalProfile(p)
  \/ \E type \in {"like", "dislike"} : CollectFeedback(type, "song", "music")
  \/ ClearFeedback
  \/ \E d \in Days : ClockChange(d)

SpecCache == Init /\ [][NextCache]_vars

\* the store with subscribers, on a device with nothing persisted
InitStore ==
  /\ localStorage = [k \in Keys |-> NoItem]
  /\ today = 1
  /\ data = Null
  /\ calls = [c \in Calls |-> IdleCall]
  /\ listeners = <<>>
  /\ disposers = <<>>
  /\ stack = <<>>
  /\ notes = <<>>
  /\ last = [op |-> "init"]

NextStore ==
  \/ \E listener \in Listeners : Subscribe(listener)
  \/ \E i \in 1..MaxSubscribes : Unsubscribe(i)
  \/ \E dashboardData \in StoreUpdates : SetData(dashboardData)
  \/ ClearData
  \/ Notify
  \/ Return

SpecStore == InitStore /\ [][NextStore]_vars

\* the store written and read, with no subscriber
NextRead ==
  \/ \E dashboardData \in StoreValues : SetData(dashboardData)
  \/ ClearData
  \/ Return
  \/ GetData
  \/ \E name \in DomainNames : Read(name)

SpecRead == InitStore /\ [][NextRead]_vars

\* the anonymization of the source profile, or the age group of the birth
\* year and calendar year, that the behaviour started with
NextProfile ==
  \/ \E by \in IF "birthYear" \in DOMAIN last THEN {last.birthYear} ELSE {} :
       CalculateAgeGroup(by, last.year)
  \/ \E p \in IF "profileData" \in DOMAIN last THEN {last.profileData} ELSE {} :
       CreateAnonymizedProfile(p)

\* a device with no cache entry, one of the given profile and feedback
\* records, the given slots for invocations, and one of the given inputs
InitWith(profiles, feedbacks, slots, inputs) ==
  /\ localStorage \in {[k \in Keys |->
                          IF k = PROFILE_KEY THEN p
                          ELSE IF k = FEEDBACK_KEY THEN f ELSE NoItem] :
                        p \in profiles, f \in feedbacks}
  /\ today = 1
  /\ data = Null
  /\ calls = [c \in slots |-> IdleCall]
  /\ listeners = <<>>
  /\ disposers = <<>>
  /\ stack = <<>>
  /\ notes = <<>>
  /\ last \in inputs

\* every source profile, and every birth year in three calendar years
SpecProfile ==
  /\ InitWith(InitProfiles, {NoItem}, Calls,
              {[op |-> "init", profileData |-> p] : p \in SourceProfiles \cup {Null}}
                \cup {[op |-> "init", birthYear |-> by, year |-> year] :
                        by \in {Undefined, Null} \cup {Num(y) : y \in BirthYears},
                        year \in {BaseYear - 1, BaseYear, BaseYear + 1}})
  /\ [][NextProfile]_vars

\* the loads and refreshes the handlers of the interface start, and the
\* network's answers to them
NextUI ==
  \/ Mount
  \/ HandleReturnToDashboard
  \/ \E p \in Profiles : HandleProfileUpdate(p)
  \/ \E p \in Profiles : HandleRefresh(p)
  \/ RunDemo
  \/ \E c \in Slots : FetchRejects(c)
  \/ \E c \in Slots, status \in Statuses : FetchResolves(c, status)
  \/ \E c \in Slots : JsonRejects(c)
  \/ \E c \in Slots, body \in {BodyLive, BodyNoContent} : JsonResolves(c, body)

SpecUI == InitWith(InitProfiles, {NoItem}, Slots, {[op |-> "init"]}) /\ [][NextUI]_vars

NextFeedback ==
  \/ \E type \in {"like", "dislike"}, f \in FeedbackItems :
       HandleFeedback(type, f.item, f.category)
  \/ ClearFeedback
  \/ FormatForAPI

\* the feedback record starts absent, empty or unreadable
SpecFeedback ==
  InitWith({NoItem}, {NoItem, EmptyText, CorruptText}, Calls, {[op |-> "init"]})
    /\ [][NextFeedback]_vars

(* ------------------------------ properties ----------------------------- *)
HasKey(v, k) == v.t = "obj" /\ k \in DOMAIN v.f

\* the cache record is an entry dated d that holds bundle
CacheHolds(d, bundle) ==
  /\ localStorage[CACHE_KEY].kind = "json"
  /\ Get(Parse(localStorage[CACHE_KEY]), "date") = getTodayDateString(d)
  /\ Get(Parse(localStorage[CACHE_KEY]), "data") = bundle

\* the fields the detail views read, per domain (dashboardDataStore accessors)
RequiredFields ==
  [patient_info |-> {"name", "cultural_heritage", "age", "daily_theme"},
   music |-> {"artist", "piece_title", "youtube_url", "youtube_embed",
              "conversation_starters", "fun_fact"},
   recipe |-> {"name", "ingredients", "instructions", "conversation_starters"},
   photo |-> {"filename", "description", "cultural_context", "conversation_starters"},
   nostalgia_news |-> {"title", "subtitle", "date", "personalized_for", "sections",
                       "themes", "metadata"}]

NonEmpty(v) == Truthy(v) /\ (v.t = "arr" => Len(v.a) > 0)

DomainOf(bundle, name) ==
  IF name = "patient_info" THEN OptGet(bundle, "patient_info")
  ELSE OptGet(OptGet(bundle, "content"), name)

Complete(bundle) ==
  \A name \in DOMAIN RequiredFields : \A f \in RequiredFields[name] :
    NonEmpty(OptGet(DomainOf(bundle, name), f))

\* the step just taken belongs to a getDashboardData invocation
CallStep ==
  last.op \in {"getDashboardData", "refreshDashboard", "fetchRejects", "fetchResolves",
               "jsonRejects", "jsonResolves"}

\* C1: getDashboardData never rejects, and what it resolves to is a non-null
\* bundle with both content and patient_info, whatever the fetch outcome,
\* the cache record and the persisted profile record are.
C1_NeverRejects ==
  CallStep =>
    /\ last.outcome # "rejected"
    /\ last.outcome = "resolved" =>
         /\ Truthy(OptGet(last.result, "content"))
         /\ Truthy(OptGet(last.result, "patient_info"))

FetchFailed ==
  \/ last.op \in {"fetchRejects", "jsonRejects"}
  \/ last.op = "fetchResolves" /\ ~ResponseOk(last.status)
  \/ last.op = "jsonResolves"
       /\ (~HasKey(last.body, "content") \/ ~HasKey(last.body, "patient_info"))

\* C3: when the fetch fails (network exception, non-2xx, shape error) the call
\* resolves to the reference dataset itself and the cache holds that bundle
\* under today's date.
C3_WholesaleFallback ==
  FetchFailed =>
    /\ last.outcome = "resolved"
    /\ last.result = FALLBACK_API_RESPONSE
    /\ CacheHolds(today, FALLBACK_API_RESPONSE)

C3_Witness ==
  /\ last.op = "fetchResolves" /\ last.status = 500
  /\ last.result = FALLBACK_API_RESPONSE
  /\ CacheHolds(today, FALLBACK_API_RESPONSE)

\* C4: a parsed 2xx body is used as live data only if it has both a content
\* and a patient_info key; a body missing either is treated as invalid and
\* replaced by the reference dataset.
C4_ShapeValidation ==
  last.op = "jsonResolves" =>
    /\ last.via = "live" =>
         /\ HasKey(last.body, "content") /\ HasKey(last.body, "patient_info")
         /\ last.result = last.body
    /\ (~HasKey(last.body, "content") \/ ~HasKey(last.body, "patient_info")) =>
         /\ last.via = "INVALID_STRUCTURE"
         /\ last.result = FALLBACK_API_RESPONSE
         /\ data = FALLBACK_API_RESPONSE

C4_Witness ==
  /\ last.op = "jsonResolves"
  /\ last.body = BodyNoPatientInfo
  /\ last.via = "INVALID_STRUCTURE"

\* C5: when a call that did not hit the cache completes, the store's bundle
\* and the cache entry dated today are exactly the bundle the call returned.
C5_StoreAndCacheHoldResult ==
  (CallStep /\ last.outcome = "resolved" /\ last.via # "cache") =>
    /\ data = last.result
    /\ CacheHolds(today, last.result)

C5_Witness ==
  /\ last.op = "jsonResolves" /\ last.via = "live" /\ last.result = BodyLive
  /\ data = BodyLive /\ CacheHolds(today, BodyLive)

\* C6: a getCachedData that follows a setCachedData on the same calendar day
\* returns a bundle equal to the one of that last set, whatever was set before.
C6_CacheRoundTrip ==
  [][(last.op = "setCachedData" /\ last'.op = "getCachedData") =>
       (last'.ret = last.bundle /\ ~last'.threw)]_vars

C6_Witness ==
  /\ last.op = "getCachedData" /\ last.log = "valid"
  /\ last.ret = BodyEmptyFields
  /\ today = 2

\* the cache record is an entry whose date is not the day the clock shows
StaleEntry ==
  /\ localStorage[CACHE_KEY].kind = "json"
  /\ ~Throws(Parse(localStorage[CACHE_KEY]))
  /\ Get(Parse(localStorage[CACHE_KEY]), "date") # getTodayDateString(today)

\* C7: a getCachedData that finds an entry dated another day (earlier or
\* later) returns a miss and removes the entry, so that no get on any day
\* can return it afterwards.
C7_DayRollover ==
  [][(last'.op = "getCachedData" /\ StaleEntry) =>
       /\ last'.ret = Null
       /\ localStorage'[CACHE_KEY] = NoItem
       /\ \A d \in Days : getCachedData(localStorage', d).ret = Null]_vars

C7_Witness ==
  /\ last.op = "getCachedData" /\ last.log = "different_day"
  /\ last.ret = Null
  /\ localStorage[CACHE_KEY] = NoItem

\* the cache record is missing (getItem yields nothing or the empty string)
MissingRecord == ItemFalsy(localStorage[CACHE_KEY])

\* the cache record is a text that does not deserialize into an entry
CorruptRecord ==
  /\ ~ItemFalsy(localStorage[CACHE_KEY])
  /\ \/ ParseThrows(localStorage[CACHE_KEY])
     \/ Throws(Parse(localStorage[CACHE_KEY]))

C10_CacheOpsKeepProfile ==
  [][last'.op \in {"setCachedData", "getCachedData", "clearCache"} =>
       localStorage'[PROFILE_KEY] = localStorage[PROFILE_KEY]]_vars

\* the listener invocations made by the invocation numbered id, in order
NotesOf(id) == SelectSeq(notes, LAMBDA n : n.call = id)

\* a setData or clearData invocation has just ended, by returning or by an
\* exception leaving it
BroadcastEnded == last.op \in {"returned", "threw"}

\* C11: when a setData(b) or clearData() invocation ends, it has invoked every
\* listener subscribed when it began exactly once, in subscription order,
\* with b (with null for clearData).
C11_BroadcastToAll ==
  BroadcastEnded =>
    \A i \in DOMAIN last.frames :
      LET frame == last.frames[i] IN
      NotesOf(frame.id) =
        [j \in 1..Len(frame.snap) |->
           [call |-> frame.id, arg |-> frame.arg, k |-> j,
            listener |-> frame.snap[j], value |-> frame.arg]]

\* C12: when a listener has thrown during a broadcast, every listener
\* subscribed after it has been invoked in that same broadcast by the time
\* the invocation ends.
C12_SubscriberIsolation ==
  BroadcastEnded =>
    \A i \in DOMAIN last.frames, n \in DOMAIN notes :
      (notes[n].call = last.frames[i].id /\ ListenerThrows(notes[n].listener)) =>
        \A j \in (notes[n].k + 1)..Len(last.frames[i].snap) :
          \E m \in DOMAIN notes :
            notes[m].call = last.frames[i].id /\ notes[m].k = j

\* C13: the listener invocations of two setData calls are never interleaved
\* (those of one call are consecutive), and each invocation carries the
\* bundle of the call that produced it.
C13_NoInterleaving ==
  /\ \A i, j, k \in DOMAIN notes :
       (i < j /\ j < k /\ notes[i].call = notes[k].call) =>
         notes[j].call = notes[i].call
  /\ \A i \in DOMAIN notes : notes[i].value = notes[i].arg

\* C19: calling a disposer a second time changes nothing, and a listener
\* whose disposer has been called is not invoked by any setData or clearData
\* that starts afterwards.
C19_DisposerIdempotent ==
  [][/\ (last'.op = "unsubscribe" /\ last'.again) => listeners' = listeners
     /\ Len(notes') > Len(notes) =>
          \A i \in DOMAIN disposers :
            disposers[i].called => notes'[Len(notes')].listener # disposers[i].listener]_vars

\* C14: getData never returns null or undefined: it returns the stored value
\* when one is set and the reference dataset itself when the store holds
\* null or undefined.
C14_GetDataNeverNull ==
  last.op = "getData" =>
    /\ last.ret \notin {Null, Undefined}
    /\ Truthy(data) => last.ret = data
    /\ data \in {Null, Undefined} => last.ret = FALLBACK_API_RESPONSE

C14_Witness ==
  /\ last.op = "getData"
  /\ data = Undefined
  /\ last.ret = FALLBACK_API_RESPONSE

\* a field value that is given: a non-empty scalar, list or object
Present(v) ==
  /\ Truthy(v)
  /\ v.t = "arr" => Len(v.a) > 0
  /\ v.t = "obj" => DOMAIN v.f # {}

\* the fields of the reference domain
ReferenceFields(name) == DOMAIN FallbackData(name).f

\* the live domain object of the stored bundle
Live(name) == DomainOf(data, name)

\* the accessor just read a domain whose live object is a non-empty object
ReadMerged == last.op = "read" /\ ~NoApiData(ApiData(data, last.domain))

\* C15: whatever the store holds, what a domain accessor returns has every
\* field of the reference domain (and every section of the reference
\* nostalgia sections) present and non-empty.
C15_ReadTimeRepair ==
  last.op = "read" =>
    /\ \A k \in ReferenceFields(last.domain) : Present(Get(last.ret, k))
    /\ last.domain = "nostalgia_news" =>
         \A k \in DOMAIN Get(FallbackData("nostalgia_news"), "sections").f :
           Present(Get(Get(last.ret, "sections"), k))

FlatDomains == {"music", "photo", "recipe", "patient_info"}

C17_NoBleedNoLoss ==
  (ReadMerged /\ \A k \in ReferenceFields(last.domain) :
                   Present(Get(Live(last.domain), k))) =>
    last.ret = Live(last.domain)

\* C18: when the live domain object is absent (no bundle, no content, no
\* such domain) or an empty object, the accessor returns the reference
\* domain object.
C18_AbsentLiveIsReference ==
  (last.op = "read" /\ Live(last.domain) \in {Undefined, Null, EmptyObj}) =>
    last.ret = FallbackData(last.domain)

C18_Witness ==
  /\ last.op = "read" /\ last.domain = "recipe"
  /\ data = BodyNoPatientInfo
  /\ last.ret = FallbackData("recipe")

\* C20: the patient_profile of every request in flight, as serialised into
\* the request body, has exactly the keys age_group, cultural_heritage,
\* interests and profile_complete.
C20_AnonymizedKeys ==
  \A c \in Calls :
    calls[c].pc # "idle" =>
      DOMAIN Get(Normalize(calls[c].request), "patient_profile").f =
        {"age_group", "cultural_heritage", "interests", "profile_complete"}

C20_Witness ==
  \E c \in Calls :
    /\ calls[c].pc = "fetch"
    /\ localStorage[PROFILE_KEY] = Stringify(ProfileA)
    /\ Get(Get(calls[c].request, "patient_profile"), "cultural_heritage") = Str("Irish")

(* C21: the age group that createAnonymizedProfile sends is derived from
   the current year minus the birth year: 80 or more gives oldest_senior,
   65 to 79 gives senior, less than 65 gives adult, and a missing birth
   year gives senior; for every birth year and current year tried. *)
C21_AgeGroup ==
  LET AgeGroupRule(birthYear, year) ==
        IF birthYear \in {Undefined, Null} THEN "senior"
        ELSE IF year - birthYear.n >= 80 THEN "oldest_senior"
        ELSE IF year - birthYear.n >= 65 /\ year - birthYear.n < 80 THEN "senior"
        ELSE "adult"
  IN /\ last.op = "calculateAgeGroup" =>
          last.ret = AgeGroupRule(last.birthYear, last.year)
     /\ last.op = "createAnonymizedProfile" /\ ~last.threw =>
          Get(last.ret, "age_group")
            = Str(AgeGroupRule(Get(last.source, "birth_year"), BaseYear))

\* a source profile aged exactly 80 was anonymized
C21_Witness ==
  /\ last.op = "createAnonymizedProfile" /\ ~last.threw
  /\ Get(last.source, "birth_year") = Num(BaseYear - 80)
  /\ Get(last.ret, "age_group") = Str("oldest_senior")

(* C22: createAnonymizedProfile applies its defaults: cultural_heritage is
   "American" when the source has none; interests is the starter list when
   the source interests are absent or an empty list, and the source list
   otherwise; profile_complete is true exactly when the source had both
   cultural_heritage and birth_year. *)
C22_Defaults ==
  last.op = "createAnonymizedProfile" /\ ~last.threw =>
    LET heritage == Get(last.source, "cultural_heritage")
        interests == Get(last.source, "interests")
        StarterInterests == Arr(<<Str("music"), Str("family"), Str("cooking")>>)
    IN /\ Get(last.ret, "cultural_heritage")
            = IF Truthy(heritage) THEN heritage ELSE Str("American")
       /\ Get(last.ret, "interests")
            = IF interests = Undefined \/ interests = Arr(<<>>)
              THEN StarterInterests ELSE interests
       /\ Get(last.ret, "profile_complete")
            = Bool(Truthy(heritage) /\ Truthy(Get(last.source, "birth_year")))

(* C23: a getDashboardData call issues no POST when a cache entry dated
   today exists and forceRefresh is false, and exactly one POST otherwise;
   no later step of the call issues another one (a failed call is not
   retried), so a non-forced load that follows a cached resolution on the
   same day issues no request. *)
C23_PostsPerLoad ==
  [][LET posts == Cardinality({c \in Calls :
                     calls[c].pc = "idle" /\ calls'[c].pc = "fetch"})
         \* the cache record is an entry dated d
         EntryDated(ls, d) ==
           /\ ls[CACHE_KEY].kind = "json"
           /\ ~Throws(Parse(ls[CACHE_KEY]))
           /\ Get(Parse(ls[CACHE_KEY]), "date") = getTodayDateString(d)
     IN /\ last'.op \in {"getDashboardData", "refreshDashboard"} =>
             posts = IF EntryDated(localStorage, today) /\ ~last'.force
                     THEN 0 ELSE 1
        /\ last'.op \notin {"getDashboardData", "refreshDashboard"} =>
             posts = 0]_vars

(* C24: every load terminates: a getDashboardData call whose request is
   never answered still completes (with the wholesale fallback) as time
   passes, so the application's loading state, true while the call is
   awaited, eventually becomes false. *)
C24_LoadTerminates ==
  \A c \in Calls : (calls[c].pc # "idle") ~> (calls[c].pc = "idle")

(* C25: at most one fetch to /api/dashboard is in flight at any time,
   whatever the order of the interface actions that start loads and
   refreshes (mount, profile save, profile-page refresh, the demo's
   refreshDashboard, return from the demo). *)
C25_OneFetchInFlight ==
  Cardinality({c \in DOMAIN calls : calls[c].pc = "fetch"}) <= 1

(* C28: a saved profile edit is not lost: when App.handleProfileUpdate(P)
   has completed, the dashboard reload it starts included, the persisted
   profile record is P with its name field, whether or not a cache entry
   dated today existed when the profile was saved. *)
C28_ProfileEditKept ==
  [][/\ (last'.op = "handleProfileUpdate" /\ last'.outcome # "pending") =>
          localStorage'[PROFILE_KEY] = Stringify(last'.profileToUse)
     /\ \A c \in DOMAIN calls :
          (/\ calls[c].pc # "idle" /\ calls'[c].pc = "idle"
           /\ calls[c].by = "app" /\ Truthy(calls[c].profileToUse)) =>
            localStorage'[PROFILE_KEY] = Stringify(calls[c].profileToUse)]_vars

(* C26: refreshDashboard bypasses and replaces the cache: it removes the
   existing cache entry and always issues a network request, even when an
   entry dated today existed; when the call completes, the cache entry and
   the store hold the bundle it resolved to, not the one cached before. *)
C26_RefreshReplacesCache ==
  [][/\ last'.op = "refreshDashboard" =>
          /\ localStorage'[CACHE_KEY] = NoItem
          /\ \E c \in DOMAIN calls : calls[c].pc = "idle" /\ calls'[c].pc = "fetch"
     /\ (/\ last'.op \in {"fetchRejects", "fetchResolves", "jsonRejects", "jsonResolves"}
         /\ last'.outcome = "resolved") =>
          (data = last.result /\ CacheHolds(today, last.result))']_vars

(* C27: the feedback log is append-only: a collectFeedback of type like or
   dislike appends exactly one entry at the end of the list of its type and
   leaves every earlier entry of both lists as it was, in order; the only
   operation that removes entries is clearFeedback, which empties both
   lists. *)
C27_AppendOnly ==
  [][LET Likes(ls) == Get(getFeedback(ls), "likes").a
         Dislikes(ls) == Get(getFeedback(ls), "dislikes").a
         \* after is before with one entry for (type, item, category) at its end
         Appended(before, after, type, item, category) ==
           /\ Len(after) = Len(before) + 1
           /\ SubSeq(after, 1, Len(before)) = before
           /\ Get(after[Len(after)], "type") = Str(type)
           /\ Get(after[Len(after)], "item") = Str(item)
           /\ Get(after[Len(after)], "category") = Str(category)
     IN
     /\ (last'.op = "handleFeedback" /\ last'.type = "like") =>
          /\ Appended(Likes(localStorage), Likes(localStorage'),
                      "like", last'.item, last'.category)
          /\ Dislikes(localStorage') = Dislikes(localStorage)
     /\ (last'.op = "handleFeedback" /\ last'.type = "dislike") =>
          /\ Appended(Dislikes(localStorage), Dislikes(localStorage'),
                      "dislike", last'.item, last'.category)
          /\ Likes(localStorage') = Likes(localStorage)
     /\ last'.op = "clearFeedback" =>
          Likes(localStorage') = <<>> /\ Dislikes(localStorage') = <<>>
     /\ last'.op \notin {"handleFeedback", "clearFeedback"} =>
          /\ Likes(localStorage') = Likes(localStorage)
          /\ Dislikes(localStorage') = Dislikes(localStorage)]_vars

\* an entry was appended to a list that already held two different entries
C27_Witness ==
  LET likes == Get(getFeedback(localStorage), "likes").a
  IN /\ last.op = "handleFeedback" /\ last.type = "like"
     /\ Len(likes) = 3
     /\ Get(likes[1], "item") # Get(likes[2], "item")

(* C29: the store's fallback indicator matches its content: after a load
   that ended in the wholesale fallback (network error, non-2xx status or
   invalid shape) and after clearData, isUsingFallback() is true; after a
   load that published an accepted live response it is false. *)
C29_FallbackIndicator ==
  /\ FetchFailed => isUsingFallback(data)
  /\ (last.op = "refreshDashboard" /\ last.outcome = "pending") => isUsingFallback(data)
  /\ (last.op = "jsonResolves" /\ last.via = "live") => ~isUsingFallback(data)

(* C30: a disposer removes only the registration it was returned for: when
   the same callback has been subscribed twice, calling one of the two
   disposers leaves the other registration in the listener list, so the
   next setData still invokes the callback once. *)
C30_DisposerRemovesOwnRegistration ==
  LET \* the registrations whose disposer has not been called, in order
      active == SelectSeq(disposers, LAMBDA d : ~d.called)
  IN listeners = [i \in 1..Len(active) |-> active[i].listener]

====
